---- MODULE Spec2Model ----
(***************************************************************************)
(* A model of FESTIM/meshing.py: create_mesh and its two mesh builders     *)
(* (generate_mesh_from_vertices, mesh_and_refine), check_borders,          *)
(* subdomains and subdomains_1D.                                           *)
(*                                                                         *)
(* Coordinates.  Every coordinate is an integer number of grid steps, Unit *)
(* steps to one length unit.  Unit is chosen so that the vertices of every *)
(* uniform mesh and every midpoint the refinement loop can create within   *)
(* the bounds are whole numbers of steps (ExactMidpoints checks it), so    *)
(* the arithmetic of the model is exact.  A midpoint (a+b)/2 is compared   *)
(* through its double a+b (Midpoint2), which needs no division.            *)
(*                                                                         *)
(* Meshes.  A fenics mesh is kept by its geometry: the set of its vertex   *)
(* coordinates (points) and the sequence of its cells in iteration order,  *)
(* each cell the pair <<left, right>> of its end coordinates.  The indices *)
(* generate_mesh_from_vertices hands to the MeshEditor are kept as the    *)
(* code writes them, 0-based, in the variable editor.                      *)
(*                                                                         *)
(* Library calls.  IntervalMesh, refine, near, np.unique, sorted and max   *)
(* are modelled by what they do on the values the program hands them.      *)
(***************************************************************************)
EXTENDS Integers, Sequences, FiniteSets, TLC

\* ---------------------------------------------------------------- bounds
MaxInitialCells == 3    \* initial_number_of_cells ranges over 1..MaxInitialCells
MaxSize == 2            \* size ranges over 1..MaxSize length units
MaxRefCells == 2        \* refinement["cells"] ranges over 0..MaxRefCells
MaxRefinements == 2     \* at most this many entries in "refinements"
MaxVertex == 2          \* a vertex of a vertex list ranges over -1..MaxVertex
MaxVertices == 3        \* a vertex list has 1..MaxVertices entries
MaxMaterials == 2       \* a materials list has 1..MaxMaterials entries
MaxId == 2              \* a material id ranges over 1..MaxId
MaxBorder == 2          \* a border ranges over 0..MaxBorder length units

\* ---------------------------------------------------------------- helpers
RECURSIVE Pow2(_)
Pow2(k) == IF k = 0 THEN 1 ELSE 2 * Pow2(k - 1)

RECURSIVE Factorial(_)
Factorial(k) == IF k = 0 THEN 1 ELSE k * Factorial(k - 1)

\* Every productive pass of the refinement loop adds a cell, so one refinement
\* makes at most refinement["cells"] passes and halves a cell at most so often.
MaxDepth == MaxRefCells * MaxRefinements

\* Grid steps per length unit: i*size/n and every midpoint are whole steps.
Unit == Factorial(MaxInitialCells) * Pow2(MaxDepth)

Range(s) == {s[i] : i \in DOMAIN s}

Max(S) == CHOOSE m \in S : \A e \in S : e <= m

Min(S) == CHOOSE m \in S : \A e \in S : m <= e

RECURSIVE SeqsUpTo(_, _)
SeqsUpTo(S, n) ==
    IF n = 0 THEN {<<>>}
    ELSE LET shorter == SeqsUpTo(S, n - 1)
         IN  shorter \cup {Append(s, e) : s \in {t \in shorter : Len(t) = n - 1}, e \in S}

\* ---------------------------------------------------------------- meshes
NoMesh == [points |-> {}, cells |-> <<>>]

NoEditor == [vertices |-> <<>>, cells |-> <<>>]

\* Twice cell.midpoint().x()
Midpoint2(cell) == cell[1] + cell[2]

Midpoint(cell) == (cell[1] + cell[2]) \div 2

\* IntervalMesh(n, a, b): n cells of equal length over [a, b]
IntervalMesh(n, a, b) ==
    [points |-> {a + (i * (b - a)) \div n : i \in 0..n},
     cells  |-> [i \in 1..n |-> <<a + ((i - 1) * (b - a)) \div n,
                                  a + (i * (b - a)) \div n>>]]

\* The pass over cells(mesh) that sets cell_markers[cell] = True where
\* cell.midpoint().x() < refinement_point
\* (the same pass with <= for <)
MarkCellsInclusive(m, point) ==
    [i \in 1..Len(m.cells) |-> Midpoint2(m.cells[i]) <= 2 * point]

MarkCells(m, point) ==
    [i \in 1..Len(m.cells) |-> Midpoint2(m.cells[i]) < 2 * point]

\* refine(mesh, cell_markers) on an interval mesh: every marked cell is replaced
\* by its two halves, in place; the other cells are kept.
RECURSIVE RefineCells(_, _, _)
RefineCells(cells, markers, i) ==
    IF i > Len(cells) THEN <<>>
    ELSE (IF markers[i]
          THEN <<(<<cells[i][1], Midpoint(cells[i])>>),
                 (<<Midpoint(cells[i]), cells[i][2]>>)>>
          ELSE <<cells[i]>>)
         \o RefineCells(cells, markers, i + 1)

\* (the same with the right half of a marked cell left as the whole cell)
RECURSIVE RefineCellsGap(_, _, _)
RefineCellsGap(cells, markers, i) ==
    IF i > Len(cells) THEN <<>>
    ELSE (IF markers[i]
          THEN <<(<<cells[i][1], Midpoint(cells[i])>>),
                 (<<cells[i][1], cells[i][2]>>)>>
          ELSE <<cells[i]>>)
         \o RefineCellsGap(cells, markers, i + 1)

RefineGap(m, markers) ==
    [points |-> m.points \cup {Midpoint(m.cells[i]) : i \in {j \in 1..Len(m.cells) : markers[j]}},
     cells  |-> RefineCellsGap(m.cells, markers, 1)]

Refine(m, markers) ==
    [points |-> m.points \cup {Midpoint(m.cells[i]) : i \in {j \in 1..Len(m.cells) : markers[j]}},
     cells  |-> RefineCells(m.cells, markers, 1)]

\* np.unique(vertices): the distinct values, ascending
RECURSIVE SortSet(_)
SortSet(S) == IF S = {} THEN <<>> ELSE <<Min(S)>> \o SortSet(S \ {Min(S)})

\* (the same without the removal of duplicates)
NpUniqueKeepAll(vertices) == vertices

NpUnique(vertices) == SortSet(Range(vertices))

\* sorted(list): ascending, stable (insertion of each element after its equals)
RECURSIVE InsertSorted(_, _)
InsertSorted(s, e) ==
    IF s = <<>> THEN <<e>>
    ELSE IF e < Head(s) THEN <<e>> \o s
    ELSE <<Head(s)>> \o InsertSorted(Tail(s), e)

RECURSIVE Sorted(_)
Sorted(s) == IF s = <<>> THEN <<>> ELSE InsertSorted(Sorted(SubSeq(s, 1, Len(s) - 1)), s[Len(s)])

\* What generate_mesh_from_vertices hands to the MeshEditor: vertex i for
\* i in range(nb_points), cell j = [j, j+1] for j in range(nb_cells).
EditorOf(vertices) ==
    LET sorted    == Sorted(NpUnique(vertices))
        nb_points == Len(sorted)
        nb_cells  == nb_points - 1
    IN  [vertices |-> [i \in 0..(nb_points - 1) |-> sorted[i + 1]],
         cells    |-> [j \in 0..(nb_cells - 1) |-> <<j, j + 1>>]]

\* The mesh the editor closes on: cell j between the vertices it names
MeshOfEditor(ed) ==
    [points |-> {ed.vertices[i] : i \in DOMAIN ed.vertices},
     cells  |-> [k \in 1..Cardinality(DOMAIN ed.cells) |->
                    <<ed.vertices[ed.cells[k - 1][1]], ed.vertices[ed.cells[k - 1][2]]>>]]

GenerateMeshFromVertices(vertices) == MeshOfEditor(EditorOf(vertices))

\* ---------------------------------------------------------------- state
VARIABLES
    pc,                       \* where the program is
    mesh_parameters,          \* parameters["mesh_parameters"]
    strategy,                 \* the branch create_mesh took
    editor,                   \* what generate_mesh_from_vertices gave the MeshEditor
    mesh,                     \* the mesh
    initial_number_of_cells,  \* mesh_and_refine's local of that name
    nb_cells_ref,             \* refinement["cells"] of the current refinement
    refinement_point,         \* refinement["x"] of the current refinement
    cell_markers,             \* the bool MeshFunction of the current pass
    nrefs,                    \* entries of "refinements" iterated so far
    materials,                \* parameters["materials"]
    size,                     \* the size handed to check_borders and subdomains_1D
    volume_markers,           \* cell tags, in cell order
    surface_markers,          \* facet tags, by facet position
    error                     \* the message of the ValueError raised, "" if none

vars == <<pc, mesh_parameters, strategy, editor, mesh, initial_number_of_cells,
          nb_cells_ref, refinement_point, cell_markers, nrefs, materials, size,
          volume_markers, surface_markers, error>>

refine_vars == <<initial_number_of_cells, nb_cells_ref, refinement_point,
                 cell_markers, nrefs>>

tag_vars == <<materials, size, volume_markers, surface_markers, error>>

\* ---------------------------------------------------------------- inputs
Keys == {"mesh_file", "mesh", "vertices", "refinements"}

\* A mesh read from a file or handed over ready-made is any mesh
ExternalMeshes == {IntervalMesh(n, 0, Unit) : n \in 1..2}

VertexLists == {vs \in SeqsUpTo({v * Unit : v \in -1..MaxVertex}, MaxVertices) : Len(vs) >= 1}

\* The dictionaries create_mesh is called with.  A key that is absent has an
\* empty value here; mesh_is_Mesh is isinstance(mesh_parameters["mesh"], Mesh).
MeshParameters ==
    {mp \in [keys : SUBSET Keys,
             mesh_is_Mesh : BOOLEAN,
             mesh : ExternalMeshes \cup {NoMesh},
             vertices : VertexLists \cup {<<>>},
             initial_number_of_cells : 1..MaxInitialCells,
             size : {s * Unit : s \in 1..MaxSize}] :
        /\ ("vertices" \in mp.keys) <=> (mp.vertices # <<>>)
        /\ mp.mesh_is_Mesh => "mesh" \in mp.keys
        /\ mp.mesh_is_Mesh <=> (mp.mesh # NoMesh)}

\* The values of refinement["x"]: quarter units from 0 to beyond the largest size
RefinementPoints == {k * (Unit \div 4) : k \in 0..(4 * MaxSize + 1)}

\* ---------------------------------------------------------------- create_mesh
\* The if/elif chain of create_mesh
\* (the same chain with the vertices test first)
StrategyVerticesFirst(mp) ==
    IF "vertices" \in mp.keys THEN "vertices"
    ELSE IF "mesh_file" \in mp.keys THEN "mesh_file"
    ELSE IF "mesh" \in mp.keys /\ mp.mesh_is_Mesh THEN "mesh"
    ELSE "mesh_and_refine"

Strategy(mp) ==
    IF "mesh_file" \in mp.keys THEN "mesh_file"
    ELSE IF "mesh" \in mp.keys /\ mp.mesh_is_Mesh THEN "mesh"
    ELSE IF "vertices" \in mp.keys THEN "vertices"
    ELSE "mesh_and_refine"

Init ==
    /\ pc = "start"
    /\ mesh_parameters = [keys |-> {}, mesh_is_Mesh |-> FALSE, mesh |-> NoMesh,
                          vertices |-> <<>>, initial_number_of_cells |-> 1, size |-> Unit]
    /\ strategy = "none"
    /\ editor = NoEditor
    /\ mesh = NoMesh
    /\ initial_number_of_cells = 0
    /\ nb_cells_ref = 0
    /\ refinement_point = 0
    /\ cell_markers = <<>>
    /\ nrefs = 0
    /\ materials = <<>>
    /\ size = 0
    /\ volume_markers = <<>>
    /\ surface_markers = <<>>
    /\ error = ""

\* create_mesh, "mesh_file" branch: the mesh is whatever the file holds
CreateMeshFromFile ==
    /\ pc = "start"
    /\ \E mp \in MeshParameters, m \in ExternalMeshes :
        /\ Strategy(mp) = "mesh_file"
        /\ mesh_parameters' = mp
        /\ mesh' = m
    /\ strategy' = "mesh_file"
    /\ pc' = "done"
    /\ UNCHANGED <<editor, refine_vars, tag_vars>>

\* create_mesh, "mesh" branch: the mesh handed over
CreateMeshGiven ==
    /\ pc = "start"
    /\ \E mp \in MeshParameters :
        /\ Strategy(mp) = "mesh"
        /\ mesh_parameters' = mp
        /\ mesh' = mp.mesh
    /\ strategy' = "mesh"
    /\ pc' = "done"
    /\ UNCHANGED <<editor, refine_vars, tag_vars>>

\* create_mesh, "vertices" branch: generate_mesh_from_vertices
CreateMeshFromVertices ==
    /\ pc = "start"
    /\ \E mp \in MeshParameters :
        /\ Strategy(mp) = "vertices"
        /\ mesh_parameters' = mp
        /\ editor' = EditorOf(mp.vertices)
        /\ mesh' = GenerateMeshFromVertices(mp.vertices)
    /\ strategy' = "vertices"
    /\ pc' = "done"
    /\ UNCHANGED <<refine_vars, tag_vars>>

\* create_mesh, else branch, and mesh_and_refine up to its for loop
MeshAndRefine ==
    /\ pc = "start"
    /\ \E mp \in MeshParameters :
        /\ Strategy(mp) = "mesh_and_refine"
        /\ mesh_parameters' = mp
        /\ initial_number_of_cells' = mp.initial_number_of_cells
        /\ mesh' = IntervalMesh(mp.initial_number_of_cells, 0, mp.size)
        /\ pc' = IF "refinements" \in mp.keys THEN "for" ELSE "done"
    /\ strategy' = "mesh_and_refine"
    /\ UNCHANGED <<editor, nb_cells_ref, refinement_point, cell_markers, nrefs, tag_vars>>

\* for refinement in mesh_parameters["refinements"]: the next entry.  Each entry
\* is read once, in order, so it is drawn when the iterator yields it.
ForNext ==
    /\ pc = "for"
    /\ nrefs < MaxRefinements
    /\ \E cells \in 0..MaxRefCells, x \in RefinementPoints :
        /\ nb_cells_ref' = cells
        /\ refinement_point' = x
    /\ nrefs' = nrefs + 1
    /\ pc' = "while"
    /\ UNCHANGED <<mesh_parameters, strategy, editor, mesh, initial_number_of_cells,
                   cell_markers, tag_vars>>

\* The list is exhausted: return mesh
ForEnd ==
    /\ pc = "for"
    /\ pc' = "done"
    /\ UNCHANGED <<mesh_parameters, strategy, editor, mesh, refine_vars, tag_vars>>

\* The condition of the while loop
\* (the same without the cells to add)
WhileConditionNoTarget(count, initial, cells) == count < initial

WhileCondition(count, initial, cells) == count < initial + cells

\* One pass, first half: the condition holds, the cells are marked
WhileMark ==
    /\ pc = "while"
    /\ WhileCondition(Len(mesh.cells), initial_number_of_cells, nb_cells_ref)
    /\ cell_markers' = MarkCells(mesh, refinement_point)
    /\ pc' = "refine"
    /\ UNCHANGED <<mesh_parameters, strategy, editor, mesh, initial_number_of_cells,
                   nb_cells_ref, refinement_point, nrefs, tag_vars>>

\* One pass, second half: mesh = refine(mesh, cell_markers)
RefineStep ==
    /\ pc = "refine"
    /\ mesh' = Refine(mesh, cell_markers)
    /\ pc' = "while"
    /\ UNCHANGED <<mesh_parameters, strategy, editor, refine_vars, tag_vars>>

\* The condition fails: the loop is left
WhileExit ==
    /\ pc = "while"
    /\ ~WhileCondition(Len(mesh.cells), initial_number_of_cells, nb_cells_ref)
    /\ pc' = "after"
    /\ UNCHANGED <<mesh_parameters, strategy, editor, mesh, refine_vars, tag_vars>>

\* initial_number_of_cells = len(mesh.cells())
Rebase ==
    /\ pc = "after"
    /\ initial_number_of_cells' = Len(mesh.cells)
    /\ pc' = "for"
    /\ UNCHANGED <<mesh_parameters, strategy, editor, mesh, nb_cells_ref,
                   refinement_point, cell_markers, nrefs, tag_vars>>

Next ==
    \/ CreateMeshFromFile
    \/ CreateMeshGiven
    \/ CreateMeshFromVertices
    \/ MeshAndRefine
    \/ ForNext
    \/ ForEnd
    \/ WhileMark
    \/ RefineStep
    \/ WhileExit
    \/ Rebase

Spec == Init /\ [][Next]_vars

\* The program runs on: a step of the while loop that can be taken is taken
FairSpec == Spec /\ WF_vars(WhileMark) /\ WF_vars(RefineStep) /\ WF_vars(WhileExit)

\* ---------------------------------------------------------------- check_borders
\* A border as Python holds it: its value, and whether it is an int (0) or a
\* float (0.0).  For the values other than zero the type changes nothing.
IntBorders == {[x |-> b * Unit, is_int |-> TRUE] : b \in 0..MaxBorder}

AnyBorders == IntBorders \cup {[x |-> 0, is_int |-> FALSE]}

AnyPairs == AnyBorders \X AnyBorders

IntPairs == IntBorders \X IntBorders

\* The pairs that are intervals, low <= high
IntervalPairs == {p \in IntPairs : p[1].x <= p[2].x}

\* The materials lists over a set of border pairs; ids are distinct
MaterialLists(pairs) ==
    {ms \in SeqsUpTo([id : 1..MaxId, borders : pairs], MaxMaterials) :
        /\ Len(ms) >= 1
        /\ \A i, j \in 1..Len(ms) : i # j => ms[i].id # ms[j].id}

Sizes == {b * Unit : b \in 0..MaxBorder}

\* sorted(all_borders, key=itemgetter(0)): ascending in the lower border, stable
RECURSIVE InsertByLow(_, _)
InsertByLow(s, e) ==
    IF s = <<>> THEN <<e>>
    ELSE IF e[1].x < Head(s)[1].x THEN <<e>> \o s
    ELSE <<Head(s)>> \o InsertByLow(Tail(s), e)

RECURSIVE SortedByLow(_)
SortedByLow(s) ==
    IF s = <<>> THEN <<>> ELSE InsertByLow(SortedByLow(SubSeq(s, 1, Len(s) - 1)), s[Len(s)])

\* v is not 0: Python compares identities, and only the int 0 is the object 0
IsNot0(v) == ~(v.is_int /\ v.x = 0)

\* check_borders(size, materials): the message of the ValueError it raises,
\* "" when it returns True
CheckBorders(sz, ms) ==
    LET all_borders == SortedByLow([i \in 1..Len(ms) |-> ms[i].borders])
        n == Len(all_borders)
    IN  IF IsNot0(all_borders[1][1]) THEN "Borders don't begin at zero"
        ELSE IF \E i \in 1..(n - 1) : all_borders[i][2].x # all_borders[i + 1][1].x
             THEN "Borders don't match to each other"
        ELSE IF all_borders[n][2].x # sz THEN "Borders don't match with size"
        ELSE ""

\* ---------------------------------------------------------------- subdomains_1D
\* The loop over materials for one cell, from material k on, tag so far t
RECURSIVE TagCellFrom(_, _, _, _)
TagCellFrom(cell, ms, k, t) ==
    IF k > Len(ms) THEN t
    ELSE TagCellFrom(cell, ms, k + 1,
            IF Len(ms) = 1 THEN ms[k].id
            ELSE IF /\ Midpoint2(cell) >= 2 * ms[k].borders[1].x
                    /\ Midpoint2(cell) <= 2 * ms[k].borders[2].x
                 THEN ms[k].id
                 ELSE t)

\* as TagCellFrom, but the first material that holds the midpoint keeps the cell
RECURSIVE TagCellFirstFrom(_, _, _, _)
TagCellFirstFrom(cell, ms, k, t) ==
    IF k < 1 THEN t
    ELSE TagCellFirstFrom(cell, ms, k - 1,
            IF Len(ms) = 1 THEN ms[k].id
            ELSE IF /\ Midpoint2(cell) >= 2 * ms[k].borders[1].x
                    /\ Midpoint2(cell) <= 2 * ms[k].borders[2].x
                 THEN ms[k].id
                 ELSE t)

\* as TagCellFrom, but a lone material is held to its borders too
RECURSIVE TagCellBordersFrom(_, _, _, _)
TagCellBordersFrom(cell, ms, k, t) ==
    IF k > Len(ms) THEN t
    ELSE TagCellBordersFrom(cell, ms, k + 1,
            IF /\ Midpoint2(cell) >= 2 * ms[k].borders[1].x
               /\ Midpoint2(cell) <= 2 * ms[k].borders[2].x
            THEN ms[k].id
            ELSE t)

TagCellFirst(cell, ms) == TagCellFirstFrom(cell, ms, Len(ms), 0)

TagCellBorders(cell, ms) == TagCellBordersFrom(cell, ms, 1, 0)

\* volume_markers[cell] once the loop over materials is through
TagCell(cell, ms) == TagCellFrom(cell, ms, 1, 0)

VolumeMarkers(m, ms) == [i \in 1..Len(m.cells) |-> TagCell(m.cells[i], ms)]

\* near(x, x0): closer than DOLFIN_EPS, which is far below one grid step
Near(x, x0) == x = x0

\* surface_markers[f]: 0, then 1 if near 0, then 2 if near size
TagFacet(x, sz) ==
    LET t0 == 0
        t1 == IF Near(x, 0) THEN 1 ELSE t0
    IN  IF Near(x, sz) THEN 2 ELSE t1

SurfaceMarkers(m, sz) == [x \in m.points |-> TagFacet(x, sz)]

\* ---------------------------------------------------------------- subdomains
\* The tags an XDMF file or a ready-made MeshFunction holds are any tags
ExternalCellTags(m) == {[i \in 1..Len(m.cells) |-> t] : t \in 0..MaxId}

ExternalFacetTags(m) == {[x \in m.points |-> t] : t \in 0..2}

\* subdomains, "cells_file" and "meshfunction_cells" branches
SubdomainsGiven ==
    /\ pc = "done"
    /\ \E vm \in ExternalCellTags(mesh), sm \in ExternalFacetTags(mesh) :
        /\ volume_markers' = vm
        /\ surface_markers' = sm
    /\ pc' = "given"
    /\ UNCHANGED <<mesh_parameters, strategy, editor, mesh, refine_vars, materials,
                   size, error>>

\* size as the else branch of subdomains sets it
SizeOf(mp) == IF "vertices" \in mp.keys THEN Max(Range(mp.vertices)) ELSE mp.size

\* subdomains, else branch: check_borders raises
SubdomainsRaise ==
    /\ pc = "done"
    /\ \E ms \in MaterialLists(IntPairs) :
        /\ Len(ms) > 1
        /\ CheckBorders(SizeOf(mesh_parameters), ms) # ""
        /\ materials' = ms
        /\ error' = CheckBorders(SizeOf(mesh_parameters), ms)
    /\ size' = SizeOf(mesh_parameters)
    /\ pc' = "raised"
    /\ UNCHANGED <<mesh_parameters, strategy, editor, mesh, refine_vars,
                   volume_markers, surface_markers>>

\* subdomains, else branch: check_borders passes or is skipped, subdomains_1D tags
SubdomainsCompute ==
    /\ pc = "done"
    /\ \E ms \in MaterialLists(IntPairs) :
        /\ Len(ms) > 1 => CheckBorders(SizeOf(mesh_parameters), ms) = ""
        /\ materials' = ms
        /\ volume_markers' = VolumeMarkers(mesh, ms)
    /\ size' = SizeOf(mesh_parameters)
    /\ surface_markers' = SurfaceMarkers(mesh, SizeOf(mesh_parameters))
    /\ pc' = "computed"
    /\ UNCHANGED <<mesh_parameters, strategy, editor, mesh, refine_vars, error>>

NextSub == Next \/ SubdomainsGiven \/ SubdomainsRaise \/ SubdomainsCompute

SpecSub == Init /\ [][NextSub]_vars

\* ---------------------------------------------------------------- check_borders alone
InitBorders ==
    /\ pc = "input"
    /\ mesh_parameters = [keys |-> {}, mesh_is_Mesh |-> FALSE, mesh |-> NoMesh,
                          vertices |-> <<>>, initial_number_of_cells |-> 1, size |-> Unit]
    /\ strategy = "none"
    /\ editor = NoEditor
    /\ mesh = NoMesh
    /\ initial_number_of_cells = 0
    /\ nb_cells_ref = 0
    /\ refinement_point = 0
    /\ cell_markers = <<>>
    /\ nrefs = 0
    /\ materials \in {ms \in MaterialLists(AnyPairs) : Len(ms) >= 2}
    /\ size \in Sizes
    /\ volume_markers = <<>>
    /\ surface_markers = <<>>
    /\ error = ""

CheckBordersCall ==
    /\ pc = "input"
    /\ error' = CheckBorders(size, materials)
    /\ pc' = IF CheckBorders(size, materials) = "" THEN "returned" ELSE "raised"
    /\ UNCHANGED <<mesh_parameters, strategy, editor, mesh, refine_vars, materials,
                   size, volume_markers, surface_markers>>

NextBorders == CheckBordersCall

SpecBorders == InitBorders /\ [][NextBorders]_vars

\* ---------------------------------------------------------------- subdomains_1D alone
TagMeshes == {GenerateMeshFromVertices(SortSet(S)) :
                 S \in (SUBSET {v * Unit : v \in 0..MaxVertex}) \ {{}}}

InitTag ==
    /\ pc = "input"
    /\ mesh_parameters = [keys |-> {}, mesh_is_Mesh |-> FALSE, mesh |-> NoMesh,
                          vertices |-> <<>>, initial_number_of_cells |-> 1, size |-> Unit]
    /\ strategy = "none"
    /\ editor = NoEditor
    /\ mesh \in TagMeshes
    /\ initial_number_of_cells = 0
    /\ nb_cells_ref = 0
    /\ refinement_point = 0
    /\ cell_markers = <<>>
    /\ nrefs = 0
    /\ materials \in MaterialLists(IntervalPairs)
    /\ size \in Sizes
    /\ volume_markers = <<>>
    /\ surface_markers = <<>>
    /\ error = ""

\* subdomains_1D(mesh, materials, size)
Subdomains1D ==
    /\ pc = "input"
    /\ volume_markers' = VolumeMarkers(mesh, materials)
    /\ surface_markers' = SurfaceMarkers(mesh, size)
    /\ pc' = "tagged"
    /\ UNCHANGED <<mesh_parameters, strategy, editor, mesh, refine_vars, materials,
                   size, error>>

\* subdomains_1D again, on the same mesh and materials
Subdomains1DAgain ==
    /\ pc = "tagged"
    /\ volume_markers' = VolumeMarkers(mesh, materials)
    /\ surface_markers' = SurfaceMarkers(mesh, size)
    /\ pc' = "tagged again"
    /\ UNCHANGED <<mesh_parameters, strategy, editor, mesh, refine_vars, materials,
                   size, error>>

NextTag == Subdomains1D \/ Subdomains1DAgain

SpecTag == InitTag /\ [][NextTag]_vars

\* ---------------------------------------------------------------- properties
\* Every cell the loop halves has its midpoint on the grid
ExactMidpoints ==
    pc = "refine" =>
        \A i \in 1..Len(mesh.cells) : cell_markers[i] => Midpoint2(mesh.cells[i]) % 2 = 0

\* The refinement point lies strictly inside (0, size)
PointInside == 0 < refinement_point /\ refinement_point < mesh_parameters.size

\* C1: with the refinement point strictly inside (0, size), the while loop of
\* mesh_and_refine is left: from every test of its condition the program
\* reaches the line after the loop.
C1_LoopTerminates == (pc = "while" /\ PointInside) ~> (pc = "after")

\* C2 as stated: when the loop of a refinement with its point strictly inside
\* (0, size) has ended, the mesh has exactly the count at the start of that
\* refinement plus refinement["cells"] cells.
C2_ExactCount ==
    (pc = "after" /\ PointInside) =>
        Len(mesh.cells) = initial_number_of_cells + nb_cells_ref

\* C2 as amended: when the loop has ended the mesh has at least the count at the
\* start of that refinement plus refinement["cells"] cells, and the count at the
\* start of a refinement is the count the mesh has then.
C2_AtLeastCount ==
    /\ (pc = "after" /\ PointInside) =>
            Len(mesh.cells) >= initial_number_of_cells + nb_cells_ref
    /\ (pc = "for" \/ (pc = "done" /\ strategy = "mesh_and_refine")) =>
            initial_number_of_cells = Len(mesh.cells)

\* A second refinement has ended above its target
C2_Witness ==
    /\ pc = "after"
    /\ PointInside
    /\ nrefs = 2
    /\ nb_cells_ref > 0
    /\ initial_number_of_cells > mesh_parameters.initial_number_of_cells
    /\ Len(mesh.cells) > initial_number_of_cells + nb_cells_ref

\* What C3 says check_borders answers: the first check that fails, zero meaning
\* the number zero
FirstFailingCheck(sz, ms) ==
    LET all_borders == SortedByLow([i \in 1..Len(ms) |-> ms[i].borders])
        n == Len(all_borders)
    IN  IF all_borders[1][1].x # 0 THEN "Borders don't begin at zero"
        ELSE IF \E i \in 1..(n - 1) : all_borders[i][2].x # all_borders[i + 1][1].x
             THEN "Borders don't match to each other"
        ELSE IF all_borders[n][2].x # sz THEN "Borders don't match with size"
        ELSE ""

\* C3: check_borders raises "don't begin at zero" if the lowest lower border is
\* not 0, else "don't match" if an upper border differs from the next lower one,
\* else "don't match with size" if the last upper border is not size, and
\* returns otherwise.
C3_FirstFailingCheck ==
    pc \in {"returned", "raised"} =>
        /\ error = FirstFailingCheck(size, materials)
        /\ (pc = "returned") <=> (error = "")

\* The midpoint of the cell lies in the closed border interval of the material
Holds(material, cell) ==
    /\ Midpoint2(cell) >= 2 * material.borders[1].x
    /\ Midpoint2(cell) <= 2 * material.borders[2].x

\* C4: when subdomains computes the tags of more than one material, on a mesh
\* from the vertex list or from mesh_and_refine, every cell has the id of a
\* material whose border interval holds the midpoint of the cell.
C4_EveryCellCovered ==
    (pc = "computed" /\ Len(materials) > 1 /\ strategy \in {"vertices", "mesh_and_refine"}) =>
        \A i \in 1..Len(mesh.cells) :
            \E k \in 1..Len(materials) :
                /\ volume_markers[i] = materials[k].id
                /\ Holds(materials[k], mesh.cells[i])

\* The cell tags of a single material: its id on every cell
SingleMaterialCells ==
    /\ Len(volume_markers) = Len(mesh.cells)
    /\ \A i \in 1..Len(mesh.cells) : volume_markers[i] = materials[1].id

\* C5 as stated: with one material of id k every cell is tagged k, a facet at
\* x = 0 is tagged 1, a facet at x = size is tagged 2, every other facet 0.
C5_SingleMaterialTags ==
    (pc = "tagged" /\ Len(materials) = 1) =>
        /\ SingleMaterialCells
        /\ DOMAIN surface_markers = mesh.points
        /\ \A x \in mesh.points :
            /\ x = 0 => surface_markers[x] = 1
            /\ x = size => surface_markers[x] = 2
            /\ (x # 0 /\ x # size) => surface_markers[x] = 0

\* The tags C5 as amended describes
SingleMaterialTagsSizeFirst ==
    (pc = "tagged" /\ Len(materials) = 1) =>
        /\ SingleMaterialCells
        /\ DOMAIN surface_markers = mesh.points
        /\ \A x \in mesh.points :
            surface_markers[x] = IF x = size THEN 2 ELSE IF x = 0 THEN 1 ELSE 0

\* C5 as amended: with one material of id k every cell is tagged k whatever the
\* borders, a facet at x = size is tagged 2, any other facet at x = 0 is tagged
\* 1, every other facet 0; and a second run leaves both tag arrays as they were.
C5_SingleMaterialTagsSizeFirst ==
    /\ []SingleMaterialTagsSizeFirst
    /\ [][(pc = "tagged" /\ Len(materials) = 1) =>
            (volume_markers' = volume_markers /\ surface_markers' = surface_markers)]_vars

\* One material whose borders hold no cell midpoint, on a mesh with a facet at 0,
\* a facet at size and a facet elsewhere, tagged twice
C5_Witness ==
    /\ pc = "tagged again"
    /\ Len(materials) = 1
    /\ Len(mesh.cells) >= 2
    /\ \A i \in 1..Len(mesh.cells) :
        ~Holds(materials[1], mesh.cells[i]) /\ volume_markers[i] = materials[1].id
    /\ size > 0
    /\ {0, size} \subseteq mesh.points
    /\ \E x \in mesh.points : x # 0 /\ x # size /\ surface_markers[x] = 0

\* C6: create_mesh takes the first branch that matches, in the order mesh_file,
\* mesh of the mesh type, vertices, mesh_and_refine; a mesh that is not of the
\* mesh type falls through.
C6_FirstMatchWins ==
    pc # "start" =>
        LET keys == mesh_parameters.keys
            is_mesh == "mesh" \in keys /\ mesh_parameters.mesh_is_Mesh
        IN  /\ "mesh_file" \in keys => strategy = "mesh_file"
            /\ ("mesh_file" \notin keys /\ is_mesh) =>
                    (strategy = "mesh" /\ mesh = mesh_parameters.mesh)
            /\ ("mesh_file" \notin keys /\ ~is_mesh /\ "vertices" \in keys) =>
                    (strategy = "vertices" /\ editor # NoEditor)
            /\ ("mesh_file" \notin keys /\ ~is_mesh /\ "vertices" \notin keys) =>
                    (strategy = "mesh_and_refine" /\ editor = NoEditor)

\* A mesh entry that is no mesh, with a vertex list: the vertex list is used
C6_Witness ==
    /\ pc = "done"
    /\ mesh_parameters.keys = {"mesh", "vertices", "refinements"}
    /\ ~mesh_parameters.mesh_is_Mesh
    /\ strategy = "vertices"

\* C7: generate_mesh_from_vertices gives the editor the N distinct input values
\* in strictly increasing order as vertices 0..N-1 and the N-1 cells [j, j+1],
\* and the mesh has these N-1 cells, none when N = 1.
C7_VerticesMesh ==
    strategy = "vertices" =>
        LET values == Range(mesh_parameters.vertices)
            N == Cardinality(values)
        IN  /\ DOMAIN editor.vertices = 0..(N - 1)
            /\ Range(editor.vertices) = values
            /\ \A i \in 0..(N - 2) : editor.vertices[i] < editor.vertices[i + 1]
            /\ DOMAIN editor.cells = 0..(N - 2)
            /\ \A j \in 0..(N - 2) : editor.cells[j] = <<j, j + 1>>
            /\ mesh.points = values
            /\ Len(mesh.cells) = N - 1
            /\ \A j \in 0..(N - 2) :
                mesh.cells[j + 1] = <<editor.vertices[j], editor.vertices[j + 1]>>

\* A vertex list out of order and with a value twice
C7_Witness ==
    /\ strategy = "vertices"
    /\ Len(mesh_parameters.vertices) = 3
    /\ mesh_parameters.vertices[1] > mesh_parameters.vertices[2]
    /\ mesh_parameters.vertices[1] = mesh_parameters.vertices[3]
    /\ Len(mesh.cells) = 1

\* The cells whose midpoint lies strictly left of the refinement point
LeftOfPoint == {i \in 1..Len(mesh.cells) : Midpoint2(mesh.cells[i]) < 2 * refinement_point}

\* One pass: the cells left of the point are replaced by their halves, in
\* place, every other cell is kept, the count grows by the cells replaced
PassBisectsMarked ==
    LET old == mesh.cells
        new == mesh'.cells
        at(i) == i + Cardinality({j \in LeftOfPoint : j < i})
    IN  /\ Len(new) = Len(old) + Cardinality(LeftOfPoint)
        /\ Len(new) >= Len(old)
        /\ \A i \in 1..Len(old) :
            IF i \in LeftOfPoint
            THEN /\ new[at(i)][1] = old[i][1]
                 /\ new[at(i) + 1][2] = old[i][2]
                 /\ new[at(i)][2] = new[at(i) + 1][1]
                 /\ 2 * new[at(i)][2] = old[i][1] + old[i][2]
            ELSE new[at(i)] = old[i]

\* C8: each pass of the refinement loop replaces exactly the cells whose
\* midpoint is strictly less than the refinement point by their two halves and
\* keeps every other cell; the count grows by the number of cells replaced.
C8_PassBisectsMarked == [][pc = "refine" => PassBisectsMarked]_vars

\* After a pass that halved cells, a cell whose midpoint is the point is whole
C8_Witness ==
    /\ pc = "while"
    /\ Len(mesh.cells) > initial_number_of_cells
    /\ \E i \in 1..Len(mesh.cells) :
        /\ Midpoint2(mesh.cells[i]) = 2 * refinement_point
        /\ \E j \in 1..mesh_parameters.initial_number_of_cells :
            mesh.cells[i] = IntervalMesh(mesh_parameters.initial_number_of_cells, 0,
                                         mesh_parameters.size).cells[j]

\* The cells of m follow one another from low to high and m has their ends,
\* and nothing else, as vertices
CoversInterval(m, low, high) ==
    /\ Len(m.cells) >= 1
    /\ m.cells[1][1] = low
    /\ m.cells[Len(m.cells)][2] = high
    /\ \A i \in 1..Len(m.cells) : m.cells[i][1] < m.cells[i][2]
    /\ \A i \in 1..(Len(m.cells) - 1) : m.cells[i][2] = m.cells[i + 1][1]
    /\ m.points = {m.cells[i][1] : i \in 1..Len(m.cells)} \cup {high}
    /\ Cardinality(m.points) = Len(m.cells) + 1

C10_LastMaterialWins ==
    (pc = "tagged" /\ Len(materials) > 1) =>
        /\ Len(volume_markers) = Len(mesh.cells)
        /\ \A i \in 1..Len(mesh.cells) :
            LET holders == {k \in 1..Len(materials) : Holds(materials[k], mesh.cells[i])}
            IN  volume_markers[i] =
                    IF holders = {} THEN 0 ELSE materials[Max(holders)].id

\* A midpoint on the border two materials share, the right one first in the
\* list: the cell has the id of the left one
C10_Witness ==
    /\ pc = "tagged"
    /\ Len(materials) = 2
    /\ materials[2].borders[2].x = materials[1].borders[1].x
    /\ materials[2].borders[1].x < materials[2].borders[2].x
    /\ materials[1].borders[1].x < materials[1].borders[2].x
    /\ \E i \in 1..Len(mesh.cells) :
        /\ Midpoint2(mesh.cells[i]) = 2 * materials[1].borders[1].x
        /\ volume_markers[i] = materials[2].id

====
